---- MODULE Spec2Model ----
(***************************************************************************)
(* The order-book synchronisation hook useOrderbookWebSocket of            *)
(* src/src/app/page.tsx (lines 40-185): a REST depth snapshot, a stream of *)
(* depth diffs applied to a mutable book kept in a ref, a bounded history  *)
(* of top-of-book slices, and the reconnect / teardown logic around the    *)
(* WebSocket.                                                              *)
(*                                                                         *)
(* One action is one JavaScript task (an event handler, a timer callback,  *)
(* a resolved fetch with its promise continuations, a React commit).       *)
(* useState setters called with a value are modelled at the call, because  *)
(* their result does not depend on when React processes them; the          *)
(* functional updater of setHistoricalData is queued in pendingHist and    *)
(* evaluated by Render, because it reads the book's arrays when it runs.   *)
(***************************************************************************)
EXTENDS Integers, Sequences, FiniteSets, TLC

(***************************************************************************)
(* Bounds of the model.                                                    *)
(***************************************************************************)
MaxVersion == 6
MaxSockets == 3
MaxClock == 1
MaxSymbolChanges == 1
MaxDeltas == 1
MaxPending == 2
MaxAppends == 62

(***************************************************************************)
(* Program constants.                                                      *)
(***************************************************************************)
HistoryCapacity == 60
TopLevels == 20

Symbols == {"BTCUSDT", "ETHUSDT"}
DefaultSymbol == "BTCUSDT"

(***************************************************************************)
(* Wire values.  The REST and stream payloads carry prices and quantities  *)
(* as decimal strings; parseFloat turns them into numbers.  Two spellings  *)
(* of one number parse to the same value.                                  *)
(***************************************************************************)
PriceStrings == {"100.00000000", "101.00000000"}
DeltaQtyStrings == {"0.00000000", "1.00000000"}

ParseFloat(s) ==
  CASE s = "100.00000000" -> 100
    [] s = "101.00000000" -> 101
    [] s = "102.00000000" -> 102
    [] s = "103.00000000" -> 103
    [] s = "104.00000000" -> 104
    [] s = "105.00000000" -> 105
    [] s = "106.00000000" -> 106
    [] s = "107.00000000" -> 107
    [] s = "108.00000000" -> 108
    [] s = "109.00000000" -> 109
    [] s = "110.00000000" -> 110
    [] s = "111.00000000" -> 111
    [] s = "112.00000000" -> 112
    [] s = "113.00000000" -> 113
    [] s = "114.00000000" -> 114
    [] s = "115.00000000" -> 115
    [] s = "116.00000000" -> 116
    [] s = "117.00000000" -> 117
    [] s = "118.00000000" -> 118
    [] s = "119.00000000" -> 119
    [] s = "120.00000000" -> 120
    [] s = "121.00000000" -> 121
    [] s = "0.00000000" -> 0
    [] s = "1.00000000" -> 1
    [] s = "2.00000000" -> 2
    [] s = "3.00000000" -> 3

(***************************************************************************)
(* Depth snapshots the REST endpoint can return: bids best (highest)       *)
(* first, asks best (lowest) first, no zero quantities.                    *)
(***************************************************************************)
ScenarioASnapshot ==
  [bids |-> << <<"100.00000000", "2.00000000">> >>,
   asks |-> << <<"101.00000000", "3.00000000">> >>,
   lastUpdateId |-> 5]

TwoLevelSnapshot ==
  [bids |-> << <<"101.00000000", "1.00000000">>, <<"100.00000000", "2.00000000">> >>,
   asks |-> << >>,
   lastUpdateId |-> 4]

\* a snapshot taken after the first events the stream will deliver
LateSnapshot ==
  [bids |-> << <<"100.00000000", "1.00000000">> >>,
   asks |-> << >>,
   lastUpdateId |-> 6]

\* a snapshot deeper than the history keeps: 21 bid levels, 120 down to 100
DeepSnapshot ==
  [bids |-> <<
     <<"120.00000000", "2.00000000">>, <<"119.00000000", "2.00000000">>,
     <<"118.00000000", "2.00000000">>, <<"117.00000000", "2.00000000">>,
     <<"116.00000000", "2.00000000">>, <<"115.00000000", "2.00000000">>,
     <<"114.00000000", "2.00000000">>, <<"113.00000000", "2.00000000">>,
     <<"112.00000000", "2.00000000">>, <<"111.00000000", "2.00000000">>,
     <<"110.00000000", "2.00000000">>, <<"109.00000000", "2.00000000">>,
     <<"108.00000000", "2.00000000">>, <<"107.00000000", "2.00000000">>,
     <<"106.00000000", "2.00000000">>, <<"105.00000000", "2.00000000">>,
     <<"104.00000000", "2.00000000">>, <<"103.00000000", "2.00000000">>,
     <<"102.00000000", "2.00000000">>, <<"101.00000000", "2.00000000">>,
     <<"100.00000000", "2.00000000">>
     >>,
   asks |-> << <<"121.00000000", "3.00000000">> >>,
   lastUpdateId |-> 4]

Snapshots == {ScenarioASnapshot, TwoLevelSnapshot, LateSnapshot}

(***************************************************************************)
(* Array helpers.                                                          *)
(***************************************************************************)
Min(a, b) == IF a < b THEN a ELSE b

\* Array.prototype.slice(0, n)
SliceFirst(s, n) == SubSeq(s, 1, Min(n, Len(s)))

\* Array.prototype.slice(-n)
SliceLast(s, n) == SubSeq(s, Len(s) - Min(n, Len(s)) + 1, Len(s))

\* Array.prototype.findIndex(x => x.price === p); 0 stands for -1
FindIndex(levels, p) ==
  IF \E i \in 1..Len(levels) : levels[i].price = p
    THEN CHOOSE i \in 1..Len(levels) :
           /\ levels[i].price = p
           /\ \A j \in 1..(i - 1) : levels[j].price # p
    ELSE 0

\* Array.prototype.splice(i, 1)
Splice(levels, i) == SubSeq(levels, 1, i - 1) \o SubSeq(levels, i + 1, Len(levels))

\* the ask comparator pasted into the bid branch
BidCompareAscending(a, b) == a.price - b.price

\* (a, b) => b.price - a.price
BidCompare(a, b) == b.price - a.price

\* (a, b) => a.price - b.price
AskCompare(a, b) == a.price - b.price

Compare(side, a, b) == IF side = "bids" THEN BidCompare(a, b) ELSE AskCompare(a, b)

\* one step of a stable insertion sort: x goes after the last element that
\* does not compare greater than it
RECURSIVE InsertLevel(_, _, _)
InsertLevel(side, sorted, x) ==
  IF sorted = << >> THEN << x >>
  ELSE IF Compare(side, sorted[Len(sorted)], x) <= 0 THEN Append(sorted, x)
  ELSE Append(InsertLevel(side, SubSeq(sorted, 1, Len(sorted) - 1), x), sorted[Len(sorted)])

\* Array.prototype.sort(compare), which is stable
RECURSIVE SortLevels(_, _)
SortLevels(side, levels) ==
  IF levels = << >> THEN << >>
  ELSE InsertLevel(side, SortLevels(side, SubSeq(levels, 1, Len(levels) - 1)), levels[Len(levels)])

\* the forEach body without its quantityNum === 0 branch
UpsertLevelKeepsZero(side, levels, delta, timestamp) ==
  LET priceNum == ParseFloat(delta[1])
      quantityNum == ParseFloat(delta[2])
      index == FindIndex(levels, priceNum)
      level == [price |-> priceNum, quantity |-> quantityNum, timestamp |-> timestamp]
  IN IF index # 0
       THEN [levels EXCEPT ![index] = level]
       ELSE SortLevels(side, Append(levels, level))

(***************************************************************************)
(* The body of one forEach iteration of ws.onmessage, for either side.     *)
(***************************************************************************)
UpsertLevel(side, levels, delta, timestamp) ==
  LET priceNum == ParseFloat(delta[1])
      quantityNum == ParseFloat(delta[2])
      index == FindIndex(levels, priceNum)
      level == [price |-> priceNum, quantity |-> quantityNum, timestamp |-> timestamp]
  IN IF quantityNum = 0
       THEN IF index # 0 THEN Splice(levels, index) ELSE levels
       ELSE IF index # 0
              THEN [levels EXCEPT ![index] = level]
              ELSE SortLevels(side, Append(levels, level))

\* data.b?.forEach(...) / data.a?.forEach(...)
RECURSIVE ApplyDeltas(_, _, _, _)
ApplyDeltas(side, levels, deltas, timestamp) ==
  IF deltas = << >> THEN levels
  ELSE ApplyDeltas(side, UpsertLevel(side, levels, Head(deltas), timestamp), Tail(deltas), timestamp)

\* data.bids.map(...) / data.asks.map(...) of initializeOrderbook
MapLevels(pairs, timestamp) ==
  [i \in 1..Len(pairs) |->
     [price |-> ParseFloat(pairs[i][1]),
      quantity |-> ParseFloat(pairs[i][2]),
      timestamp |-> timestamp]]

\* the entry holding the whole sides: no slice(0, 20)
HistoryEntryWhole(timestamp, book) ==
  [timestamp |-> timestamp, bids |-> book.bids, asks |-> book.asks]

\* { timestamp, bids: ....bids.slice(0, 20), asks: ....asks.slice(0, 20) }
HistoryEntry(timestamp, book) ==
  [timestamp |-> timestamp,
   bids |-> SliceFirst(book.bids, TopLevels),
   asks |-> SliceFirst(book.asks, TopLevels)]

\* the updater putting the new entry first: [newSnapshot, ...prev]
AppendHistoryNewestFirst(prev, timestamp, book) ==
  SliceLast(<<HistoryEntry(timestamp, book)>> \o prev, HistoryCapacity)

\* the updater keeping the oldest entries: slice(0, 60) for slice(-60)
AppendHistoryKeepsOldest(prev, timestamp, book) ==
  SliceFirst(Append(prev, HistoryEntry(timestamp, book)), HistoryCapacity)

\* the functional updater handed to setHistoricalData by ws.onmessage
AppendHistory(prev, timestamp, book) ==
  SliceLast(Append(prev, HistoryEntry(timestamp, book)), HistoryCapacity)

EmptyBook == [bids |-> << >>, asks |-> << >>, lastUpdateId |-> 0]

(***************************************************************************)
(* State.                                                                  *)
(***************************************************************************)
VARIABLES
  phase,           \* "rendered" (effect not yet run), "active", "unmounted"
  symbol,          \* the symbol prop of the latest render
  changes,         \* symbol changes so far
  orderbookRef,    \* orderbookRef.current
  orderbook,       \* the orderbook state
  aliased,         \* the orderbook state holds the arrays of orderbookRef.current
  historicalData,  \* the historicalData state as of the last render
  pendingHist,     \* timestamps of the queued setHistoricalData updaters
  queuedBooks,     \* history: the book in the ref when each of them was queued
  connected,       \* the connected state
  error,           \* the error state ("null" for null)
  wsRef,           \* wsRef.current: an index into sockets, 0 for null
  sockets,         \* every WebSocket constructed so far
  fetches,         \* snapshot requests in flight, per symbol of the closure
  timers,          \* reconnect timers pending, per symbol of the closure
  now,             \* Date.now()
  loaded,          \* history: some snapshot load has succeeded
  ev               \* history: the handler that ran last, and for a message its
                   \* content and the book's version when it arrived

vars == <<phase, symbol, changes, orderbookRef, orderbook, aliased, historicalData,
          pendingHist, queuedBooks, connected, error, wsRef, sockets, fetches, timers, now,
          loaded, ev>>

NoEvent == [op |-> "none", sym |-> DefaultSymbol, ws |-> 0, U |-> 0, u |-> 0,
            b |-> << >>, a |-> << >>, preVersion |-> 0]

Event(op, sym, ws) == [NoEvent EXCEPT !.op = op, !.sym = sym, !.ws = ws]

Init ==
  /\ phase = "rendered"
  /\ symbol = DefaultSymbol
  /\ changes = 0
  /\ orderbookRef = EmptyBook
  /\ orderbook = EmptyBook
  /\ aliased = FALSE
  /\ historicalData = << >>
  /\ pendingHist = << >>
  /\ queuedBooks = << >>
  /\ connected = FALSE
  /\ error = "null"
  /\ wsRef = 0
  /\ sockets = << >>
  /\ fetches = [s \in Symbols |-> 0]
  /\ timers = [s \in Symbols |-> 0]
  /\ now = 0
  /\ loaded = FALSE
  /\ ev = NoEvent

Mounted == phase = "active"

ReadyState(i) == IF i = 0 THEN "none" ELSE sockets[i].readyState

\* what a useState setter leaves in the state: nothing once unmounted
SetState(value, current) == IF Mounted THEN value ELSE current

(***************************************************************************)
(* The diff stream of one connection.  The exchange numbers its updates    *)
(* consecutively, so after a message U..u the same connection delivers     *)
(* u+1.. next; the first message of a connection starts anywhere.          *)
(***************************************************************************)
MinVersion == ScenarioASnapshot.lastUpdateId

DeltaLists ==
  UNION {[1..n -> PriceStrings \X DeltaQtyStrings] : n \in 0..MaxDeltas}

\* every payload of at most MaxDeltas deltas
Payloads ==
  {p \in [b : DeltaLists, a : DeltaLists] : Len(p.b) + Len(p.a) <= MaxDeltas}

\* an insertion or replacement, and a removal
FewPayloads ==
  {[b |-> << <<"101.00000000", "1.00000000">> >>, a |-> << <<"101.00000000", "0.00000000">> >>]}

\* on a level inside the first 20 of DeepSnapshot: its removal, and its
\* replacement or (once removed) insertion
DeepPayloads ==
  {[b |-> << <<"101.00000000", "0.00000000">> >>, a |-> << >>],
   [b |-> << <<"101.00000000", "1.00000000">> >>, a |-> << >>]}

\* the messages a connection can deliver next: data.U, data.u, data.b, data.a
Messages(nextU, payloads) ==
  UNION {{[U |-> U, u |-> u, b |-> p.b, a |-> p.a] : u \in U..MaxVersion, p \in payloads} :
           U \in {v \in MinVersion..MaxVersion : nextU # 0 => v = nextU}}

(***************************************************************************)
(* connectWebSocket of the closure for symbol cs.                          *)
(***************************************************************************)
CanConnect == ReadyState(wsRef) = "OPEN" \/ Len(sockets) < MaxSockets

ConnectWebSocket(cs, socks) ==
  IF ReadyState(wsRef) = "OPEN"
    THEN /\ sockets' = socks
         /\ wsRef' = wsRef
    ELSE /\ sockets' = Append(socks, [symbol |-> cs, readyState |-> "CONNECTING", nextU |-> 0])
         /\ wsRef' = Len(socks) + 1

\* WebSocket.close(): a no-op on a closing or closed socket
CloseSocket(socks, i) ==
  IF i # 0 /\ socks[i].readyState \in {"CONNECTING", "OPEN"}
    THEN [socks EXCEPT ![i].readyState = "CLOSING"]
    ELSE socks

(***************************************************************************)
(* useEffect: the effect body and its cleanup.                             *)
(***************************************************************************)
Mount ==
  /\ phase = "rendered"
  /\ phase' = "active"
  /\ fetches' = [fetches EXCEPT ![symbol] = @ + 1]
  /\ ev' = Event("mount", symbol, 0)
  /\ UNCHANGED <<symbol, changes, orderbookRef, orderbook, aliased, historicalData,
                 pendingHist, queuedBooks, connected, error, wsRef, sockets, timers, now, loaded>>

\* setSymbol: React runs the cleanup of the old effect, then the new effect
SymbolChange(s) ==
  /\ Mounted
  /\ s # symbol
  /\ changes < MaxSymbolChanges
  /\ changes' = changes + 1
  /\ symbol' = s
  /\ sockets' = CloseSocket(sockets, wsRef)
  /\ fetches' = [fetches EXCEPT ![s] = @ + 1]
  /\ ev' = Event("symbol", s, wsRef)
  /\ UNCHANGED <<phase, orderbookRef, orderbook, aliased, historicalData, pendingHist, queuedBooks,
                 connected, error, wsRef, timers, now, loaded>>

Unmount ==
  /\ Mounted
  /\ phase' = "unmounted"
  /\ sockets' = CloseSocket(sockets, wsRef)
  /\ pendingHist' = << >>
  /\ queuedBooks' = << >>
  /\ ev' = Event("unmount", symbol, wsRef)
  /\ UNCHANGED <<symbol, changes, orderbookRef, orderbook, aliased, historicalData,
                 connected, error, wsRef, fetches, timers, now, loaded>>

\* the load adding its entry to the history it finds
InitialHistoryAppended(prev, timestamp, book) == AppendHistory(prev, timestamp, book)

\* setHistoricalData([{ timestamp, bids: ....slice(0, 20), asks: ....slice(0, 20) }])
InitialHistory(prev, timestamp, book) == << HistoryEntry(timestamp, book) >>

(***************************************************************************)
(* initializeOrderbook().then(() => connectWebSocket()) of the closure for *)
(* symbol cs, from the moment the response has arrived.                    *)
(***************************************************************************)
FetchSucceed(cs, data) ==
  /\ fetches[cs] > 0
  /\ CanConnect
  /\ fetches' = [fetches EXCEPT ![cs] = @ - 1]
  /\ LET initialOrderbook == [bids |-> MapLevels(data.bids, now),
                              asks |-> MapLevels(data.asks, now),
                              lastUpdateId |-> data.lastUpdateId]
     IN /\ orderbookRef' = initialOrderbook
        /\ orderbook' = SetState(initialOrderbook, orderbook)
        /\ historicalData' = SetState(InitialHistory(historicalData, now, initialOrderbook),
                                      historicalData)
  /\ aliased' = Mounted
  /\ pendingHist' = << >>
  /\ queuedBooks' = << >>
  /\ loaded' = TRUE
  /\ ConnectWebSocket(cs, sockets)
  /\ ev' = [Event("fetchOk", cs, 0) EXCEPT !.u = data.lastUpdateId, !.b = data.bids,
                                          !.a = data.asks,
                                          !.preVersion = orderbookRef.lastUpdateId]
  /\ UNCHANGED <<phase, symbol, changes, connected, error, timers, now>>

FetchFail(cs) ==
  /\ fetches[cs] > 0
  /\ CanConnect
  /\ fetches' = [fetches EXCEPT ![cs] = @ - 1]
  /\ error' = SetState("Failed to initialize orderbook", error)
  /\ ConnectWebSocket(cs, sockets)
  /\ ev' = Event("fetchFail", cs, 0)
  /\ UNCHANGED <<phase, symbol, changes, orderbookRef, orderbook, aliased, historicalData,
                 pendingHist, queuedBooks, connected, timers, now, loaded>>

\* setTimeout(() => connectWebSocket(), 3000) comes due
TimerFire(cs) ==
  /\ timers[cs] > 0
  /\ CanConnect
  /\ timers' = [timers EXCEPT ![cs] = @ - 1]
  /\ ConnectWebSocket(cs, sockets)
  /\ ev' = Event("timer", cs, 0)
  /\ UNCHANGED <<phase, symbol, changes, orderbookRef, orderbook, aliased, historicalData,
                 pendingHist, queuedBooks, connected, error, fetches, now, loaded>>

(***************************************************************************)
(* The handlers of socket i.                                               *)
(***************************************************************************)
WsOpen(i) ==
  /\ sockets[i].readyState = "CONNECTING"
  /\ sockets' = [sockets EXCEPT ![i].readyState = "OPEN"]
  /\ connected' = SetState(TRUE, connected)
  /\ error' = SetState("null", error)
  /\ ev' = Event("open", sockets[i].symbol, i)
  /\ UNCHANGED <<phase, symbol, changes, orderbookRef, orderbook, aliased, historicalData,
                 pendingHist, queuedBooks, wsRef, fetches, timers, now, loaded>>

\* the update followed by an uncrossing pass that drops the asks at or below the best bid
UpdatedOrderbookUncrossed(book, data, timestamp) ==
  LET bids == ApplyDeltas("bids", book.bids, data.b, timestamp)
      asks == ApplyDeltas("asks", book.asks, data.a, timestamp)
  IN [bids |-> bids,
      asks |-> SelectSeq(asks, LAMBDA l : bids = << >> \/ l.price > bids[1].price),
      lastUpdateId |-> data.u]

\* the book the handler leaves in orderbookRef.current for an applied message
UpdatedOrderbook(book, data, timestamp) ==
  [bids |-> ApplyDeltas("bids", book.bids, data.b, timestamp),
   asks |-> ApplyDeltas("asks", book.asks, data.a, timestamp),
   lastUpdateId |-> data.u]

\* no staleness test at all
DroppedNever(book, data) == FALSE

\* the staleness test with < for <=
DroppedOffByOne(book, data) == data.U < book.lastUpdateId

\* if (data.U <= orderbookRef.current.lastUpdateId) return;
Dropped(book, data) == data.U <= book.lastUpdateId

WsMessage(i, data) ==
  /\ sockets[i].readyState = "OPEN"
  /\ sockets' = [sockets EXCEPT ![i].nextU = data.u + 1]
  /\ ev' = [op |-> "message", sym |-> sockets[i].symbol, ws |-> i, U |-> data.U,
            u |-> data.u, b |-> data.b, a |-> data.a,
            preVersion |-> orderbookRef.lastUpdateId]
  /\ IF Dropped(orderbookRef, data)
       THEN UNCHANGED <<orderbookRef, orderbook, aliased, pendingHist, queuedBooks>>
       ELSE LET updatedOrderbook == UpdatedOrderbook(orderbookRef, data, now)
            IN /\ Mounted => Len(pendingHist) < MaxPending
               /\ orderbookRef' = updatedOrderbook
               \* the arrays are updated in place: a state that holds them sees it
               /\ orderbook' = IF Mounted THEN updatedOrderbook
                               ELSE IF aliased
                                 THEN [orderbook EXCEPT !.bids = updatedOrderbook.bids,
                                                        !.asks = updatedOrderbook.asks]
                                 ELSE orderbook
               /\ aliased' = (Mounted \/ aliased)
               /\ pendingHist' = IF Mounted THEN Append(pendingHist, now) ELSE pendingHist
               /\ queuedBooks' = IF Mounted THEN Append(queuedBooks, updatedOrderbook)
                                            ELSE queuedBooks
  /\ UNCHANGED <<phase, symbol, changes, historicalData, connected, error, wsRef,
                 fetches, timers, now, loaded>>

\* onclose without the setTimeout
WsCloseNoReconnect(i) ==
  /\ sockets[i].readyState \in {"OPEN", "CLOSING"}
  /\ sockets' = [sockets EXCEPT ![i].readyState = "CLOSED", ![i].nextU = 0]
  /\ connected' = SetState(FALSE, connected)
  /\ ev' = Event("close", sockets[i].symbol, i)
  /\ UNCHANGED <<phase, symbol, changes, orderbookRef, orderbook, aliased, historicalData,
                 pendingHist, queuedBooks, error, wsRef, fetches, timers, now, loaded>>

\* the connection ends cleanly: onclose
WsClose(i) ==
  /\ sockets[i].readyState \in {"OPEN", "CLOSING"}
  /\ sockets' = [sockets EXCEPT ![i].readyState = "CLOSED", ![i].nextU = 0]
  /\ connected' = SetState(FALSE, connected)
  /\ timers' = [timers EXCEPT ![sockets[i].symbol] = @ + 1]
  /\ ev' = Event("close", sockets[i].symbol, i)
  /\ UNCHANGED <<phase, symbol, changes, orderbookRef, orderbook, aliased, historicalData,
                 pendingHist, queuedBooks, error, wsRef, fetches, now, loaded>>

\* the connection fails: onerror, then onclose
WsFail(i) ==
  /\ sockets[i].readyState \in {"CONNECTING", "OPEN", "CLOSING"}
  /\ sockets' = [sockets EXCEPT ![i].readyState = "CLOSED", ![i].nextU = 0]
  /\ error' = SetState("WebSocket connection error", error)
  /\ connected' = SetState(FALSE, connected)
  /\ timers' = [timers EXCEPT ![sockets[i].symbol] = @ + 1]
  /\ ev' = Event("fail", sockets[i].symbol, i)
  /\ UNCHANGED <<phase, symbol, changes, orderbookRef, orderbook, aliased, historicalData,
                 pendingHist, queuedBooks, wsRef, fetches, now, loaded>>

(***************************************************************************)
(* React processes the queued setHistoricalData updaters, oldest first.    *)
(* Each reads the arrays of the book object it closed over, which are the  *)
(* arrays of orderbookRef.current: a snapshot load, the only thing that    *)
(* replaces them, also replaces the history and so voids the queue.        *)
(***************************************************************************)
RECURSIVE RunUpdaters(_, _, _)
RunUpdaters(prev, queue, book) ==
  IF queue = << >> THEN prev
  ELSE RunUpdaters(AppendHistory(prev, Head(queue), book), Tail(queue), book)

Render ==
  /\ Mounted
  /\ pendingHist # << >>
  /\ historicalData' = RunUpdaters(historicalData, pendingHist, orderbookRef)
  /\ pendingHist' = << >>
  /\ queuedBooks' = << >>
  /\ ev' = Event("render", symbol, 0)
  /\ UNCHANGED <<phase, symbol, changes, orderbookRef, orderbook, aliased, connected,
                 error, wsRef, sockets, fetches, timers, now, loaded>>

Tick ==
  /\ now < MaxClock
  /\ now' = now + 1
  /\ ev' = Event("tick", symbol, 0)
  /\ UNCHANGED <<phase, symbol, changes, orderbookRef, orderbook, aliased, historicalData,
                 pendingHist, queuedBooks, connected, error, wsRef, sockets, fetches, timers, loaded>>

(***************************************************************************)
(* The whole hook: every handler, with the stream carrying a few payloads  *)
(* and the REST endpoint one snapshot.                                     *)
(***************************************************************************)
Next ==
  \/ Mount
  \/ \E s \in Symbols : SymbolChange(s)
  \/ Unmount
  \/ \E cs \in Symbols : FetchSucceed(cs, ScenarioASnapshot)
  \/ \E cs \in Symbols : FetchFail(cs)
  \/ \E cs \in Symbols : TimerFire(cs)
  \/ \E i \in 1..Len(sockets) : WsOpen(i)
  \/ \E i \in 1..Len(sockets) :
       \E data \in Messages(sockets[i].nextU, FewPayloads) : WsMessage(i, data)
  \/ \E i \in 1..Len(sockets) : WsClose(i)
  \/ \E i \in 1..Len(sockets) : WsFail(i)
  \/ Render

Spec == Init /\ [][Next]_vars

(***************************************************************************)
(* One subscription that stays up: a snapshot load, then any sequence of   *)
(* diff messages with every payload of the bounded wire domain.            *)
(***************************************************************************)
NextBook ==
  \/ Mount
  \/ \E data \in Snapshots : FetchSucceed(symbol, data)
  \/ \E i \in 1..Len(sockets) : WsOpen(i)
  \/ \E i \in 1..Len(sockets) :
       \E data \in Messages(sockets[i].nextU, Payloads) : WsMessage(i, data)
  \/ Render
  \/ Tick

SpecBook == Init /\ [][NextBook]_vars

(***************************************************************************)
(* One subscription that outlives the history buffer: a snapshot load,     *)
(* then a stream that delivers one event per update id, each one applied   *)
(* and rendered before the next arrives, the events adding a bid level and *)
(* removing it again turn by turn.                                         *)
(***************************************************************************)
StreamEvent(v) ==
  [U |-> v, u |-> v,
   b |-> << <<"101.00000000", IF v % 2 = 0 THEN "1.00000000" ELSE "0.00000000">> >>,
   a |-> << >>]

NextHistory ==
  \/ Mount
  \/ FetchSucceed(symbol, ScenarioASnapshot)
  \/ \E i \in 1..Len(sockets) : WsOpen(i)
  \/ \E i \in 1..Len(sockets) :
       /\ orderbookRef.lastUpdateId < MinVersion + MaxAppends
       /\ pendingHist = << >>
       /\ WsMessage(i, StreamEvent(orderbookRef.lastUpdateId + 1))
  \/ Render
  \/ Tick

SpecHistory == Init /\ [][NextHistory]_vars

(***************************************************************************)
(* The connection life cycle alone: every handler but ws.onmessage, whose  *)
(* effects are on the book and the history only.  The event loop runs a    *)
(* timer callback once its delay has elapsed, so a pending reconnect timer *)
(* does not wait forever.                                                  *)
(***************************************************************************)
NextConn ==
  \/ Mount
  \/ \E s \in Symbols : SymbolChange(s)
  \/ Unmount
  \/ \E cs \in Symbols : FetchSucceed(cs, ScenarioASnapshot)
  \/ \E cs \in Symbols : FetchFail(cs)
  \/ \E cs \in Symbols : TimerFire(cs)
  \/ \E i \in 1..Len(sockets) : WsOpen(i)
  \/ \E i \in 1..Len(sockets) : WsClose(i)
  \/ \E i \in 1..Len(sockets) : WsFail(i)

SpecConn == Init /\ [][NextConn]_vars /\ \A cs \in Symbols : WF_vars(TimerFire(cs))

(***************************************************************************)
(* A subscription on a book deeper than the history keeps, and the change  *)
(* of symbol that loads the snapshot of the next one over what the first   *)
(* has left.                                                               *)
(***************************************************************************)
NextDeep ==
  \/ Mount
  \/ \E s \in Symbols : SymbolChange(s)
  \/ \E data \in {ScenarioASnapshot, DeepSnapshot} : FetchSucceed(symbol, data)
  \/ \E i \in 1..Len(sockets) : WsOpen(i)
  \/ \E i \in 1..Len(sockets) :
       \E data \in Messages(sockets[i].nextU, DeepPayloads) : WsMessage(i, data)
  \/ Render
  \/ Tick

SpecDeep == Init /\ [][NextDeep]_vars

(***************************************************************************)
(* Vocabulary of the properties.                                           *)
(***************************************************************************)
Prices(levels) == {levels[i].price : i \in 1..Len(levels)}

StrictlyDescending(levels) ==
  \A i \in 1..(Len(levels) - 1) : levels[i].price > levels[i + 1].price

StrictlyAscending(levels) ==
  \A i \in 1..(Len(levels) - 1) : levels[i].price < levels[i + 1].price

NoZeroLevel(levels) == \A i \in 1..Len(levels) : levels[i].quantity # 0

\* price and quantity of every level, without the timestamps
PriceQuantity(levels) == [i \in 1..Len(levels) |-> <<levels[i].price, levels[i].quantity>>]

\* the message the onmessage handler of this step ran on
StepData == [U |-> ev'.U, u |-> ev'.u, b |-> ev'.b, a |-> ev'.a]

\* this step is an onmessage handler whose message starts beyond version + 1
GapStep ==
  /\ ev'.op = "message"
  /\ loaded
  /\ ev'.U > orderbookRef.lastUpdateId + 1

(***************************************************************************)
(* C1.  While the book is live, a message with                             *)
(* firstVersion <= version + 1 <= finalVersion is applied: the book        *)
(* becomes the old book with the message's deltas upserted, at version     *)
(* finalVersion.  The handler drops the overlapping ones                   *)
(* (firstVersion <= version < finalVersion).                               *)
(***************************************************************************)
C1_NextOrOverlappingAccepted ==
  [][(/\ ev'.op = "message"
      /\ loaded
      /\ ev'.U <= orderbookRef.lastUpdateId + 1
      /\ orderbookRef.lastUpdateId + 1 <= ev'.u)
     => orderbookRef' = UpdatedOrderbook(orderbookRef, StepData, now)]_vars

(***************************************************************************)
(* C2.  Contiguity: a message that leaves a gap                            *)
(* (firstVersion > version + 1) is never applied, so it changes neither    *)
(* the version nor any level.  The handler applies it.                     *)
(***************************************************************************)
C2_GapNeverApplied ==
  [][GapStep => orderbookRef' = orderbookRef]_vars

(***************************************************************************)
(* C3.  A gap message while live makes the engine discard the live book    *)
(* and issue a new snapshot fetch.  The handler does neither.              *)
(***************************************************************************)
C3_GapForcesResync ==
  [][GapStep => /\ orderbookRef' = EmptyBook
                /\ fetches'[symbol] = fetches[symbol] + 1]_vars

(***************************************************************************)
(* C4.  When the open stream that feeds the live book disconnects, the     *)
(* engine discards the live book and re-invokes the snapshot fetch, so     *)
(* that the re-opened stream never feeds the old book.  onclose only       *)
(* schedules connectWebSocket.                                             *)
(***************************************************************************)
C4_DisconnectForcesResync ==
  [][(/\ ev'.op \in {"close", "fail"}
      /\ Mounted
      /\ loaded
      /\ sockets[ev'.ws].readyState = "OPEN")
     => /\ orderbookRef' = EmptyBook
        /\ fetches'[symbol] = fetches[symbol] + 1]_vars

(***************************************************************************)
(* C5.  Stale diffs are no-ops: the handler run on a message with          *)
(* finalVersion <= version (the duplicate finalVersion = version           *)
(* included) changes neither the book in the ref, nor the orderbook state, *)
(* nor the history (rendered or queued), nor the error status.             *)
(***************************************************************************)
C5_StaleIsNoOp ==
  [][(ev'.op = "message" /\ ev'.u <= orderbookRef.lastUpdateId)
     => UNCHANGED <<orderbookRef, orderbook, historicalData, pendingHist, error>>]_vars

\* a duplicate (firstVersion = finalVersion = version) has been processed
\* on a live, non-empty book
C5_Witness ==
  /\ ev.op = "message"
  /\ loaded
  /\ ev.U = ev.preVersion
  /\ ev.u = ev.preVersion
  /\ orderbookRef.lastUpdateId = ev.preVersion
  /\ orderbookRef.bids # << >>

(***************************************************************************)
(* C6.  Order invariant: bids are strictly descending by price and asks    *)
(* strictly ascending, hence no price twice on a side, in the ref and in   *)
(* the orderbook state.                                                    *)
(***************************************************************************)
C6_OrderInvariant ==
  /\ StrictlyDescending(orderbookRef.bids)
  /\ StrictlyAscending(orderbookRef.asks)
  /\ StrictlyDescending(orderbook.bids)
  /\ StrictlyAscending(orderbook.asks)

\* a diff has inserted a new best bid above the bid of the snapshot
C6_Witness ==
  /\ ev.op = "message"
  /\ loaded
  /\ ev.U > ev.preVersion
  /\ PriceQuantity(orderbookRef.bids) = << <<101, 1>>, <<100, 2>> >>
  /\ orderbookRef.bids[1].timestamp >= orderbookRef.bids[2].timestamp

(***************************************************************************)
(* C7.  Teardown stops the old subscription for good: a WebSocket is only  *)
(* ever constructed for the symbol of the mounted hook, and a message is   *)
(* only applied when it comes from a stream of that symbol.  The reconnect *)
(* timer and the pending .then of a torn-down effect construct sockets for *)
(* the old symbol.                                                         *)
(***************************************************************************)
C7_TeardownStopsSubscription ==
  [][/\ Len(sockets') > Len(sockets)
        => (Mounted /\ sockets'[Len(sockets')].symbol = symbol)
     /\ (ev'.op = "message" /\ orderbookRef' # orderbookRef)
        => (Mounted /\ ev'.sym = symbol)]_vars

(***************************************************************************)
(* C8.  A snapshot that resolves for a symbol the hook has left, or after  *)
(* unmount, changes neither the book nor the history.  initializeOrderbook *)
(* stores whatever resolves.                                               *)
(***************************************************************************)
C8_StaleSnapshotDiscarded ==
  [][(ev'.op = "fetchOk" /\ (~Mounted \/ ev'.sym # symbol))
     => UNCHANGED <<orderbookRef, orderbook, historicalData>>]_vars

(***************************************************************************)
(* C9.  A failed snapshot fetch is reported, and until a snapshot load has *)
(* succeeded the book stays empty at version 0.  The stream is connected   *)
(* after a failed fetch too and its diffs are applied to the empty book.   *)
(***************************************************************************)
C9_NotReadyUntilSnapshot ==
  /\ (ev.op = "fetchFail" /\ Mounted) => error = "Failed to initialize orderbook"
  /\ ~loaded => (orderbookRef = EmptyBook /\ orderbook = EmptyBook)

(***************************************************************************)
(* C10.  Tombstone removal, for every applied message and either side: a   *)
(* price whose last delta has quantity 0 is not on the side afterwards;    *)
(* deltas that are all tombstones for absent prices leave the side as it   *)
(* was; no level of quantity 0 is stored; and Scenario A.                  *)
(***************************************************************************)
TombstoneEffect(before, after, deltas) ==
  /\ \A k \in 1..Len(deltas) :
       (/\ ParseFloat(deltas[k][2]) = 0
        /\ \A j \in (k + 1)..Len(deltas) : ParseFloat(deltas[j][1]) # ParseFloat(deltas[k][1]))
       => ParseFloat(deltas[k][1]) \notin Prices(after)
  /\ (\A k \in 1..Len(deltas) :
        /\ ParseFloat(deltas[k][2]) = 0
        /\ ParseFloat(deltas[k][1]) \notin Prices(before))
     => after = before
  /\ NoZeroLevel(after)

ScenarioADiff ==
  [U |-> 6, u |-> 6, b |-> << <<"100.00000000", "0.00000000">> >>, a |-> << >>]

C10_TombstoneRemoval ==
  [][(ev'.op = "message" /\ ev'.U > orderbookRef.lastUpdateId)
     => /\ TombstoneEffect(orderbookRef.bids, orderbookRef'.bids, ev'.b)
        /\ TombstoneEffect(orderbookRef.asks, orderbookRef'.asks, ev'.a)
        /\ (/\ StepData = ScenarioADiff
            /\ PriceQuantity(orderbookRef.bids) = << <<100, 2>> >>
            /\ PriceQuantity(orderbookRef.asks) = << <<101, 3>> >>
            /\ orderbookRef.lastUpdateId = 5)
           => (/\ orderbookRef'.bids = << >>
               /\ orderbookRef'.asks = orderbookRef.asks
               /\ orderbookRef'.lastUpdateId = 6)]_vars

\* Scenario A has run: the snapshot at version 5, then the diff 6..6 that
\* removed its only bid
C10_Witness ==
  /\ ev.op = "message"
  /\ loaded
  /\ ev.preVersion = 5
  /\ [U |-> ev.U, u |-> ev.u, b |-> ev.b, a |-> ev.a] = ScenarioADiff
  /\ orderbookRef.bids = << >>
  /\ PriceQuantity(orderbookRef.asks) = << <<101, 3>> >>
  /\ orderbookRef.lastUpdateId = 6

(***************************************************************************)
(* C11  The history buffer never holds more than HistoryCapacity (60)      *)
(* snapshots.  A render that runs n queued appends leaves                  *)
(* min(old length + n, 60) entries: the retained old entries are the most  *)
(* recent of the old buffer in their old order, and behind them come the   *)
(* n new entries in the order their messages arrived (oldest first).       *)
(***************************************************************************)
C11_HistoryKeepsLastSixty ==
  [][/\ Len(historicalData') <= HistoryCapacity
     /\ ev'.op = "render" =>
          LET n == Len(pendingHist)
              m == Len(historicalData')
              kept == m - Min(n, m)
          IN /\ m = Min(Len(historicalData) + n, HistoryCapacity)
             /\ \A i \in 1..kept :
                  historicalData'[i] = historicalData[Len(historicalData) - kept + i]
             /\ \A k \in 1..Min(n, m) :
                  historicalData'[m - k + 1].timestamp = pendingHist[n - k + 1]]_vars

\* more than 60 snapshots have been appended and the buffer holds exactly 60
C11_Witness ==
  /\ ev.op = "render"
  /\ orderbookRef.lastUpdateId - MinVersion > HistoryCapacity
  /\ Len(historicalData) = HistoryCapacity

(***************************************************************************)
(* C12  Every accepted diff message appends exactly one history snapshot,  *)
(* and its bids and asks are the first min(20, n) levels of each side of   *)
(* the book as it stood immediately after that message, not after a later  *)
(* one: the entries a render appends show the books their messages left.   *)
(***************************************************************************)
C12_SnapshotOfOwnMessage ==
  [][ev'.op = "render" =>
       LET n == Len(pendingHist)
           m == Len(historicalData')
       IN /\ m = Min(Len(historicalData) + n, HistoryCapacity)
          /\ \A k \in 1..n :
               /\ historicalData'[m - n + k].bids = SliceFirst(queuedBooks[k].bids, TopLevels)
               /\ historicalData'[m - n + k].asks = SliceFirst(queuedBooks[k].asks, TopLevels)]_vars

(***************************************************************************)
(* C13  A book value handed to the consumers (setOrderbook) is immutable:  *)
(* no later diff message changes the bids or asks observable through it,   *)
(* because it shares no array with the working book of the engine.         *)
(***************************************************************************)
C13_PublishedBookImmutable ==
  [][ev'.op = "message" =>
       \* what the value published before the message shows after it
       LET seen == IF aliased THEN orderbookRef' ELSE orderbook
       IN /\ seen.bids = orderbook.bids
          /\ seen.asks = orderbook.asks]_vars

(***************************************************************************)
(* C14  Automatic reconnect.  In an active session whose snapshot request  *)
(* has settled, some stream is connecting, open or closing, or a reconnect *)
(* timer is pending: the stream is never closed with nothing under way.    *)
(* Every disconnect (onclose, or onerror followed by onclose) arms one     *)
(* more timer, and a pending timer leads to a new call of connectWebSocket *)
(* for as long as the model has a connection left to create.               *)
(***************************************************************************)
StreamUnderWay == \E i \in 1..Len(sockets) : sockets[i].readyState # "CLOSED"

ReconnectPending == \E cs \in Symbols : timers[cs] > 0

C15_StreamOpenedWithSnapshot ==
  (Mounted /\ fetches[symbol] > 0)
    => \E i \in 1..Len(sockets) :
         /\ sockets[i].symbol = symbol
         /\ sockets[i].readyState \in {"CONNECTING", "OPEN"}

(***************************************************************************)
(* C16  Between two snapshot loads the version of the book never           *)
(* decreases: for every diff message the handler processes, applied or     *)
(* dropped, the version after it is at least the version before it.        *)
(***************************************************************************)
C16_VersionNeverDecreases ==
  [][ev'.op = "message" => orderbookRef'.lastUpdateId >= orderbookRef.lastUpdateId]_vars

\* a diff has been applied to a loaded book and has advanced its version
C16_Witness ==
  /\ ev.op = "message"
  /\ loaded
  /\ ev.preVersion < orderbookRef.lastUpdateId
  /\ orderbookRef.lastUpdateId = ev.u

(***************************************************************************)
(* C17  At any moment at most one diff-stream connection is open and able  *)
(* to deliver into the book, it belongs to an active session and is for    *)
(* the selected symbol; and every stream that is connecting or open is the *)
(* one in wsRef.current, the only one a teardown closes.                   *)
(***************************************************************************)
OpenStreams == {i \in 1..Len(sockets) : sockets[i].readyState = "OPEN"}

C17_SingleStreamForSymbol ==
  /\ Cardinality(OpenStreams) <= 1
  /\ \A i \in OpenStreams : Mounted /\ sockets[i].symbol = symbol
  /\ \A i \in 1..Len(sockets) : sockets[i].readyState \in {"CONNECTING", "OPEN"} => i = wsRef

(***************************************************************************)
(* C18  Applying a diff message changes only the levels it names.  On each *)
(* side the levels whose price is in none of that side's deltas are the    *)
(* same after the message as before it, with their price, quantity and     *)
(* timestamp, in the same order: bid deltas never alter the asks, ask      *)
(* deltas never alter the bids, and no level is removed or adjusted        *)
(* because the book is crossed.                                            *)
(***************************************************************************)
NamedPrices(deltas) == {ParseFloat(deltas[k][1]) : k \in 1..Len(deltas)}

Unnamed(levels, deltas) == SelectSeq(levels, LAMBDA l : l.price \notin NamedPrices(deltas))

C18_OnlyNamedLevelsChange ==
  [][ev'.op = "message" =>
       /\ Unnamed(orderbookRef'.bids, ev'.b) = Unnamed(orderbookRef.bids, ev'.b)
       /\ Unnamed(orderbookRef'.asks, ev'.a) = Unnamed(orderbookRef.asks, ev'.a)]_vars

\* a bid delta has just been applied and has crossed the book: the best bid is
\* at or above the best ask, and a bid and an ask it does not name, stamped
\* before it arrived, are still there
C18_Witness ==
  /\ ev.op = "message"
  /\ ev.preVersion < orderbookRef.lastUpdateId
  /\ ev.b # << >>
  /\ orderbookRef.bids # << >>
  /\ orderbookRef.asks # << >>
  /\ orderbookRef.bids[1].price >= orderbookRef.asks[1].price
  /\ \E i \in 1..Len(orderbookRef.bids) :
       /\ orderbookRef.bids[i].price \notin NamedPrices(ev.b)
       /\ orderbookRef.bids[i].timestamp < now
  /\ \E i \in 1..Len(orderbookRef.asks) :
       /\ orderbookRef.asks[i].price \notin NamedPrices(ev.a)
       /\ orderbookRef.asks[i].timestamp < now

(***************************************************************************)
(* C19  The history buffer is ordered by capture time: the timestamps of   *)
(* consecutive entries never decrease, whatever snapshot loads, diff       *)
(* appends and evictions have produced the buffer (the clock itself never  *)
(* goes back).                                                             *)
(***************************************************************************)
C19_HistoryOrderedByTime ==
  \A i \in 1..(Len(historicalData) - 1) :
    historicalData[i].timestamp <= historicalData[i + 1].timestamp

\* a full buffer that has evicted entries and spans a step of the clock
C19_Witness ==
  /\ Len(historicalData) = HistoryCapacity
  /\ orderbookRef.lastUpdateId - MinVersion > HistoryCapacity
  /\ pendingHist = << >>
  /\ historicalData[1].timestamp < historicalData[HistoryCapacity].timestamp

(***************************************************************************)
(* C20  The connected flag of an active session is accurate: it is never   *)
(* false while an open stream still delivers diffs into the book, and it   *)
(* is never true once no stream is open or still closing.                  *)
(***************************************************************************)
C20_ConnectedIffStreamOpen ==
  Mounted =>
    /\ OpenStreams # {} => connected
    /\ connected => \E i \in 1..Len(sockets) : sockets[i].readyState \in {"OPEN", "CLOSING"}

(***************************************************************************)
(* C21  A successful snapshot load in an active session replaces all prior *)
(* state at once: afterwards the book, in the ref and in the state, is the *)
(* snapshot (its bids, its asks, its version), the history buffer is       *)
(* exactly one entry with the first min(20, n) bids and asks of that       *)
(* snapshot, and no append queued for the previous book is left.           *)
(***************************************************************************)
IsSnapshotSide(levels, pairs) ==
  /\ Len(levels) = Len(pairs)
  /\ \A i \in 1..Len(pairs) :
       /\ levels[i].price = ParseFloat(pairs[i][1])
       /\ levels[i].quantity = ParseFloat(pairs[i][2])

C21_SnapshotLoadReplacesAll ==
  [][(ev'.op = "fetchOk" /\ Mounted) =>
       /\ IsSnapshotSide(orderbookRef'.bids, ev'.b)
       /\ IsSnapshotSide(orderbookRef'.asks, ev'.a)
       /\ orderbookRef'.lastUpdateId = ev'.u
       /\ orderbook' = orderbookRef'
       /\ Len(historicalData') = 1
       /\ historicalData'[1].bids
            = SubSeq(orderbookRef'.bids, 1, Min(TopLevels, Len(orderbookRef'.bids)))
       /\ historicalData'[1].asks
            = SubSeq(orderbookRef'.asks, 1, Min(TopLevels, Len(orderbookRef'.asks)))
       /\ pendingHist' = << >>]_vars

\* the snapshot of the newly selected symbol, more than 20 bids deep, has just
\* been loaded over a book that diffs had taken past the snapshot's version
C21_Witness ==
  /\ Mounted
  /\ ev.op = "fetchOk"
  /\ changes > 0
  /\ ev.preVersion > ev.u
  /\ Len(orderbookRef.bids) > TopLevels
  /\ Len(historicalData) = 1
  /\ Len(historicalData[1].bids) = TopLevels

(***************************************************************************)
(* C22  A history snapshot, once in the buffer, is never altered.  A diff  *)
(* message, whatever levels it replaces, inserts or removes in the live    *)
(* book, leaves the buffer as it is; a render only evicts entries from the *)
(* front and appends behind the ones it keeps; and every snapshot in the   *)
(* buffer holds at most 20 levels per side.                                *)
(***************************************************************************)
C22_AppendedSnapshotFrozen ==
  [][/\ \A i \in 1..Len(historicalData') :
          /\ Len(historicalData'[i].bids) <= TopLevels
          /\ Len(historicalData'[i].asks) <= TopLevels
     /\ ev'.op = "message" => historicalData' = historicalData
     /\ ev'.op = "render" =>
          \E evicted \in 0..Len(historicalData) :
            /\ Len(historicalData') >= Len(historicalData) - evicted
            /\ \A i \in 1..(Len(historicalData) - evicted) :
                 historicalData'[i] = historicalData[evicted + i]]_vars

\* a diff has just changed the first 20 bids of a book deeper than 20, after
\* the snapshot of an earlier diff entered the buffer with 20 bids
C22_Witness ==
  /\ ev.op = "message"
  /\ ev.preVersion < orderbookRef.lastUpdateId
  /\ Len(orderbookRef.bids) >= TopLevels
  /\ Len(historicalData) >= 2
  /\ Len(historicalData[Len(historicalData)].bids) = TopLevels
  /\ historicalData[Len(historicalData)].bids # SliceFirst(orderbookRef.bids, TopLevels)

====
